---- MODULE Spec2Model ----
(***************************************************************************)
(* A model of the string-manipulation catalog of src/src/manipulations.ts  *)
(* and of the runner manipulateString that applies it to the clipboard     *)
(* text.                                                                   *)
(*                                                                         *)
(* A JavaScript string is a sequence of characters, each character a       *)
(* one-character TLA+ string (<<"f","o","o">> is "foo").  A character that *)
(* has no printable spelling is a token such as "<17>" or "<U+FFFD>".      *)
(* The result of a library call whose value the catalog only passes        *)
(* through (a digest, an entity encoding, a query-string conversion) is    *)
(* the term <<"md5(">> \o text \o <<")">>: a function of its argument and  *)
(* nothing else.                                                           *)
(***************************************************************************)
EXTENDS Integers, Sequences, FiniteSets, TLC

VARIABLES
    data,       \* the clipboard text handed to manipulateString, Undefined until it is read
    lib,        \* the runtime's answers for this text that the model does not compute
    now,        \* the system clock, in seconds since the epoch
    results,    \* the value returned by the last call of manipulateString, <<>> before it
    list,       \* the list items the command shows
    previous    \* the value returned by the call before the last one on the same text

vars == <<data, lib, now, results, list, previous>>

(***************************************************************************)
(* Bounds of the model.                                                    *)
(***************************************************************************)
MaxNow == 1
MaxDecLen == 3
MaxHexLen == 2
MaxGroups == 2
MaxHexText == 3
MaxWords == 2
MaxJwts == 2
MaxPairs == 2

(***************************************************************************)
(* Characters and strings.                                                 *)
(***************************************************************************)
Printable ==
    <<" ", "!", "\"", "#", "$", "%", "&", "'", "(", ")", "*", "+", ",", "-", ".", "/",
      "0", "1", "2", "3", "4", "5", "6", "7", "8", "9", ":", ";", "<", "=", ">", "?",
      "@", "A", "B", "C", "D", "E", "F", "G", "H", "I", "J", "K", "L", "M", "N", "O",
      "P", "Q", "R", "S", "T", "U", "V", "W", "X", "Y", "Z", "[", "\\", "]", "^", "_",
      "<96>", "a", "b", "c", "d", "e", "f", "g", "h", "i", "j", "k", "l", "m", "n", "o",
      "p", "q", "r", "s", "t", "u", "v", "w", "x", "y", "z", "{", "|", "}", "~">>

PrintableSet == {Printable[i] : i \in 1..Len(Printable)}

OrdTable == [c \in PrintableSet |-> 31 + (CHOOSE i \in 1..Len(Printable) : Printable[i] = c)]

\* The UTF-8 byte of an ASCII character.
Ord(c) == IF c \in PrintableSet THEN OrdTable[c] ELSE IF c = "\n" THEN 10 ELSE 63

\* The character of a byte below 128.
Chr(b) ==
    IF b >= 32 /\ b <= 126 THEN Printable[b - 31]
    ELSE IF b = 10 THEN "\n"
    ELSE "<" \o ToString(b) \o ">"

ReplacementChar == "<U+FFFD>"

IsDigit(c) == c \in PrintableSet /\ Ord(c) >= 48 /\ Ord(c) <= 57
IsLower(c) == c \in PrintableSet /\ Ord(c) >= 97 /\ Ord(c) <= 122
IsUpper(c) == c \in PrintableSet /\ Ord(c) >= 65 /\ Ord(c) <= 90
IsSpace(c) == c \in {" ", "\n", "\t", "\r"}

toUpperCaseChar(c) == IF IsLower(c) THEN Chr(Ord(c) - 32) ELSE c
toLowerCaseChar(c) == IF IsUpper(c) THEN Chr(Ord(c) + 32) ELSE c

toUpperCase(s) == [i \in 1..Len(s) |-> toUpperCaseChar(s[i])]
toLowerCase(s) == [i \in 1..Len(s) |-> toLowerCaseChar(s[i])]

RECURSIVE trimStart(_)
trimStart(s) == IF s # <<>> /\ IsSpace(s[1]) THEN trimStart(Tail(s)) ELSE s

RECURSIVE trimEnd(_)
trimEnd(s) == IF s # <<>> /\ IsSpace(s[Len(s)]) THEN trimEnd(SubSeq(s, 1, Len(s) - 1)) ELSE s

trim(s) == trimEnd(trimStart(s))

\* s.replaceAll(c, "")
replaceAll(s, c) == SelectSeq(s, LAMBDA x : x # c)

\* The concatenation of the sequences parts[lo], ..., parts[hi].
RECURSIVE concatRange(_, _, _)
concatRange(parts, lo, hi) ==
    IF lo > hi THEN <<>>
    ELSE IF lo = hi THEN parts[lo]
    ELSE concatRange(parts, lo, (lo + hi) \div 2) \o concatRange(parts, (lo + hi) \div 2 + 1, hi)

concat(parts) == concatRange(parts, 1, Len(parts))

RECURSIVE join(_, _)
join(parts, sep) ==
    IF parts = <<>> THEN <<>>
    ELSE IF Len(parts) = 1 THEN parts[1]
    ELSE parts[1] \o sep \o join(Tail(parts), sep)

Opaque(fn, text) == <<fn \o "(">> \o text \o <<")">>

(***************************************************************************)
(* What a manipulation ends in: a string, null, or a thrown error.         *)
(***************************************************************************)
Value(s) == [kind |-> "value", v |-> s]
Null == [kind |-> "null", v |-> <<>>]
Throw == [kind |-> "throw", v |-> <<>>]

(***************************************************************************)
(* Numbers: parseInt and Number.prototype.toString.  A number is a record: *)
(* nan tells whether it is NaN, and n is its value otherwise.              *)
(***************************************************************************)
DigitValue(c) ==
    IF IsDigit(c) THEN Ord(c) - 48
    ELSE IF IsLower(c) THEN Ord(c) - 87
    ELSE IF IsUpper(c) THEN Ord(c) - 55
    ELSE 99

IsRadixDigit(c, radix) == DigitValue(c) < radix

RECURSIVE digitPrefix(_, _)
digitPrefix(s, radix) ==
    IF s # <<>> /\ IsRadixDigit(s[1], radix) THEN <<s[1]>> \o digitPrefix(Tail(s), radix)
    ELSE <<>>

RECURSIVE digitsValue(_, _)
digitsValue(ds, radix) ==
    IF ds = <<>> THEN 0
    ELSE digitsValue(SubSeq(ds, 1, Len(ds) - 1), radix) * radix + DigitValue(ds[Len(ds)])

\* parseInt(s, radix): leading white space and a sign are skipped, for radix 16 a
\* leading 0x too, then the longest prefix of digits of the radix is read; NaN
\* when that prefix is empty.
parseInt(s, radix) ==
    LET t == trimStart(s)
        neg == t # <<>> /\ t[1] = "-"
        u == IF t # <<>> /\ t[1] \in {"-", "+"} THEN Tail(t) ELSE t
        w == IF radix = 16 /\ Len(u) >= 2 /\ u[1] = "0" /\ u[2] \in {"x", "X"}
             THEN SubSeq(u, 3, Len(u)) ELSE u
        ds == digitPrefix(w, radix)
    IN  IF ds = <<>> THEN [nan |-> TRUE, n |-> 0]
        ELSE [nan |-> FALSE,
              n |-> IF neg THEN 0 - digitsValue(ds, radix) ELSE digitsValue(ds, radix)]

DigitChar(d) == IF d < 10 THEN Chr(48 + d) ELSE Chr(87 + d)

RECURSIVE natToString(_, _)
natToString(n, radix) ==
    IF n < radix THEN <<DigitChar(n)>>
    ELSE natToString(n \div radix, radix) \o <<DigitChar(n % radix)>>

\* n.toString(radix) of an integer.
toString(n, radix) ==
    IF n < 0 THEN <<"-">> \o natToString(0 - n, radix) ELSE natToString(n, radix)

\* new Array(text.length / 8) throws a RangeError unless the length is a whole
\* number; otherwise the text is cut into windows of 8 joined by spaces.
formatBinaryNumber(text) ==
    IF Len(text) % 8 # 0 THEN Throw
    ELSE Value(join([i \in 1..(Len(text) \div 8) |-> SubSeq(text, (i - 1) * 8 + 1, i * 8)],
                    <<" ">>))

HexToDecimal(text) ==
    LET n == parseInt(trim(text), 16)
    IN  IF n.nan THEN Value(<<>>) ELSE Value(toString(n.n, 10))

HexToBinary(text) ==
    LET n == parseInt(trim(text), 16)
    IN  IF n.nan THEN Value(<<>>) ELSE formatBinaryNumber(toString(n.n, 2))

\* A conversion that writes the digits above 9 in upper case.
DecimalToHex_upper(text) ==
    LET n == parseInt(trim(text), 10)
    IN  IF n.nan THEN Value(<<>>) ELSE Value(toUpperCase(toString(n.n, 16)))

DecimalToHex(text) ==
    LET n == parseInt(trim(text), 10)
    IN  IF n.nan THEN Value(<<>>) ELSE Value(toString(n.n, 16))

DecimalToBinary(text) ==
    LET n == parseInt(trim(text), 10)
    IN  IF n.nan THEN Value(<<>>) ELSE formatBinaryNumber(toString(n.n, 2))

BinaryToHex(text) ==
    LET n == parseInt(replaceAll(trim(text), " "), 2)
    IN  IF n.nan THEN Value(<<>>) ELSE Value(toString(n.n, 16))

BinaryToDecimal(text) ==
    LET n == parseInt(replaceAll(trim(text), " "), 2)
    IN  IF n.nan THEN Value(<<>>) ELSE Value(toString(n.n, 10))

(***************************************************************************)
(* Buffer: UTF-8, hex and base64.                                          *)
(***************************************************************************)
\* Buffer.from(text, "utf-8"): the texts of the model are ASCII.
utf8Encode(text) == [i \in 1..Len(text) |-> Ord(text[i])]

IsCont(bytes, i, lo, hi) == i <= Len(bytes) /\ bytes[i] >= lo /\ bytes[i] <= hi

CodePoint(cp) == "<U+" \o ToString(cp) \o ">"

\* The number of bytes that must follow the lead byte b of a UTF-8 sequence (0 for
\* a byte that leads none).
utf8Need(b) ==
    IF b >= 194 /\ b <= 223 THEN 1
    ELSE IF b >= 224 /\ b <= 239 THEN 2
    ELSE IF b >= 240 /\ b <= 244 THEN 3
    ELSE 0

\* The number of bytes after bytes[i] that continue the sequence it leads.
utf8Got(bytes, i) ==
    LET b == bytes[i]
        need == utf8Need(b)
        lo == IF b = 224 THEN 160 ELSE IF b = 240 THEN 144 ELSE 128
        hi == IF b = 237 THEN 159 ELSE IF b = 244 THEN 143 ELSE 191
    IN  IF need >= 1 /\ IsCont(bytes, i + 1, lo, hi)
        THEN IF need >= 2 /\ IsCont(bytes, i + 2, 128, 191)
             THEN IF need >= 3 /\ IsCont(bytes, i + 3, 128, 191) THEN 3 ELSE 2
             ELSE 1
        ELSE 0

\* The character decoded at bytes[i], <<>> when the byte continues the sequence of
\* a lead byte before it.  A maximal ill-formed part becomes one U+FFFD.
utf8At(bytes, i) ==
    LET b == bytes[i]
        need == utf8Need(b)
        got == utf8Got(bytes, i)
        continues == \E k \in 1..3 : i - k >= 1 /\ utf8Got(bytes, i - k) >= k
    IN  IF continues THEN <<>>
        ELSE IF b < 128 THEN <<Chr(b)>>
        ELSE IF need = 0 \/ got < need THEN <<ReplacementChar>>
        ELSE IF need = 1 THEN <<CodePoint((b - 192) * 64 + (bytes[i + 1] - 128))>>
        ELSE IF need = 2
             THEN <<CodePoint((b - 224) * 4096 + (bytes[i + 1] - 128) * 64
                              + (bytes[i + 2] - 128))>>
        ELSE <<CodePoint((b - 240) * 262144 + (bytes[i + 1] - 128) * 4096
                         + (bytes[i + 2] - 128) * 64 + (bytes[i + 3] - 128))>>

\* buf.toString("utf-8")
utf8Decode(bytes) == concat([i \in 1..Len(bytes) |-> utf8At(bytes, i)])

hexByte(b) == <<DigitChar(b \div 16), DigitChar(b % 16)>>

\* buf.toString("hex")
hexEncode(bytes) == concat([i \in 1..Len(bytes) |-> hexByte(bytes[i])])

\* A decoder that rejects a text that is not hexadecimal throughout.
hexDecode_strict(text) ==
    LET Pair(i) == DigitValue(text[2 * i - 1]) * 16 + DigitValue(text[2 * i])
    IN  IF Len(text) % 2 = 0 /\ \A i \in 1..Len(text) : IsRadixDigit(text[i], 16)
        THEN [i \in 1..(Len(text) \div 2) |-> Pair(i)]
        ELSE <<>>

\* Buffer.from(text, "hex"): text.length >>> 1 pairs are read, and the buffer is cut
\* at the first pair that holds a character that is no hex digit.
hexDecode(text) ==
    LET IsPair(i) == IsRadixDigit(text[2 * i - 1], 16) /\ IsRadixDigit(text[2 * i], 16)
        n == Len(text) \div 2
        bad == {i \in 1..n : ~IsPair(i)}
        written == IF bad = {} THEN n ELSE (CHOOSE i \in bad : \A j \in bad : i <= j) - 1
    IN  [i \in 1..written |-> DigitValue(text[2 * i - 1]) * 16 + DigitValue(text[2 * i])]

Base64Alphabet ==
    <<"A", "B", "C", "D", "E", "F", "G", "H", "I", "J", "K", "L", "M", "N", "O", "P",
      "Q", "R", "S", "T", "U", "V", "W", "X", "Y", "Z", "a", "b", "c", "d", "e", "f",
      "g", "h", "i", "j", "k", "l", "m", "n", "o", "p", "q", "r", "s", "t", "u", "v",
      "w", "x", "y", "z", "0", "1", "2", "3", "4", "5", "6", "7", "8", "9", "+", "/">>

\* buf.toString("base64"): three bytes give four characters, and = pads the last
\* group.
base64Encode(bytes) ==
    LET E(n) == Base64Alphabet[n + 1]
        Group(g) ==
            LET k == 3 * g - 2
                b1 == bytes[k]
                b2 == IF k + 1 <= Len(bytes) THEN bytes[k + 1] ELSE 0
                b3 == IF k + 2 <= Len(bytes) THEN bytes[k + 2] ELSE 0
            IN  <<E(b1 \div 4), E((b1 % 4) * 16 + b2 \div 16),
                  IF k + 1 <= Len(bytes) THEN E((b2 % 16) * 4 + b3 \div 64) ELSE "=",
                  IF k + 2 <= Len(bytes) THEN E(b3 % 64) ELSE "=">>
    IN  concat([g \in 1..((Len(bytes) + 2) \div 3) |-> Group(g)])

\* The value of a legal base64 or base64url character; 64 for any other.
unbase64(c) ==
    IF IsUpper(c) THEN Ord(c) - 65
    ELSE IF IsLower(c) THEN Ord(c) - 71
    ELSE IF IsDigit(c) THEN Ord(c) + 4
    ELSE IF c \in {"+", "-"} THEN 62
    ELSE IF c \in {"/", "_"} THEN 63
    ELSE 64

\* The values of the legal characters the decoder reads: illegal ones are skipped
\* and the first = ends the text.
base64Legal(text) ==
    LET pads == {i \in 1..Len(text) : text[i] = "="}
        end == IF pads = {} THEN Len(text)
               ELSE (CHOOSE i \in pads : \A j \in pads : i <= j) - 1
        legal == SelectSeq(SubSeq(text, 1, end), LAMBDA c : unbase64(c) < 64)
    IN  [i \in 1..Len(legal) |-> unbase64(legal[i])]

\* Four values give three bytes; two or three values left over give one or two.
base64Groups(q) ==
    LET left == Len(q) % 4
        n == 3 * (Len(q) \div 4) + (IF left >= 2 THEN left - 1 ELSE 0)
        Byte(i) ==
            LET k == 4 * ((i - 1) \div 3)
                r == (i - 1) % 3
            IN  IF r = 0 THEN q[k + 1] * 4 + q[k + 2] \div 16
                ELSE IF r = 1 THEN (q[k + 2] % 16) * 16 + q[k + 3] \div 4
                ELSE (q[k + 3] % 4) * 64 + q[k + 4]
    IN  [i \in 1..n |-> Byte(i)]

\* Buffer.from(text, "base64")
base64Decode(text) == base64Groups(base64Legal(text))

HexEncoding(text) == Value(hexEncode(utf8Encode(text)))
HexDecoding(text) == Value(utf8Decode(hexDecode(text)))
Base64Encoding(text) == Value(base64Encode(utf8Encode(text)))
Base64Decoding(text) == Value(utf8Decode(base64Decode(text)))

(***************************************************************************)
(* encodeURIComponent, decodeURIComponent, the html-entities library.      *)
(***************************************************************************)
IsUnreserved(c) ==
    IsDigit(c) \/ IsLower(c) \/ IsUpper(c) \/ c \in {"-", "_", ".", "!", "~", "*", "'", "(", ")"}

encodeURIComponent(text) ==
    concat([i \in 1..Len(text) |->
              IF IsUnreserved(text[i]) THEN <<text[i]>>
              ELSE <<"%">> \o toUpperCase(hexByte(Ord(text[i])))])

\* Whether a % of the text is not followed by two hex digits.
IsMalformed(text) ==
    \E i \in 1..Len(text) :
        /\ text[i] = "%"
        /\ i + 2 > Len(text) \/ ~IsRadixDigit(text[i + 1], 16) \/ ~IsRadixDigit(text[i + 2], 16)

\* The bytes a text with well-formed escapes stands for.
percentBytes(text) ==
    concat([i \in 1..Len(text) |->
              IF text[i] = "%"
              THEN <<DigitValue(text[i + 1]) * 16 + DigitValue(text[i + 2])>>
              ELSE IF (i >= 2 /\ text[i - 1] = "%") \/ (i >= 3 /\ text[i - 2] = "%")
                   THEN <<>>
              ELSE <<Ord(text[i])>>])

\* decodeURIComponent throws a URIError on an escape that is malformed or that is
\* no UTF-8.
URLDecoding(text) ==
    LET out == utf8Decode(percentBytes(text))
    IN  IF IsMalformed(text) THEN Throw
        ELSE IF \E i \in 1..Len(out) : out[i] = ReplacementChar THEN Throw
        ELSE Value(out)

URLEncoding(text) == Value(encodeURIComponent(text))
HTMLEncoding(text) == Value(Opaque("htmlEntities.encode", text))
HTMLDecoding(text) == Value(Opaque("htmlEntities.decode", text))

(***************************************************************************)
(* Date.  A time value is NaN or a whole number of seconds since the epoch *)
(* plus 0..999 milliseconds.                                               *)
(***************************************************************************)
InvalidDate == [nan |-> TRUE, sec |-> 0, ms |-> 0]
Time(sec, ms) == [nan |-> FALSE, sec |-> sec, ms |-> ms]

\* What the runtime's fallback date parser may answer for a text that is not in the
\* ISO format: ECMAScript leaves that to the implementation.
LegacyDates == {InvalidDate, Time(3600, 0)}

pad(n, width) ==
    LET ds == natToString(n, 10)
    IN  [i \in 1..(width - Len(ds)) |-> "0"] \o ds

\* The civil date of a day number (days since 1970-01-01).
CivilFromDays(days) ==
    LET z == days + 719468
        era == z \div 146097
        doe == z - era * 146097
        yoe == (doe - doe \div 1460 + doe \div 36524 - doe \div 146096) \div 365
        doy == doe - (365 * yoe + yoe \div 4 - yoe \div 100)
        mp == (5 * doy + 2) \div 153
        d == doy - (153 * mp + 2) \div 5 + 1
        m == IF mp < 10 THEN mp + 3 ELSE mp - 9
    IN  [y |-> yoe + era * 400 + (IF m <= 2 THEN 1 ELSE 0), m |-> m, d |-> d]

DaysFromCivil(y0, m, d) ==
    LET y == IF m <= 2 THEN y0 - 1 ELSE y0
        era == y \div 400
        yoe == y - era * 400
        doy == (153 * (IF m > 2 THEN m - 3 ELSE m + 9) + 2) \div 5 + d - 1
        doe == yoe * 365 + yoe \div 4 - yoe \div 100 + doy
    IN  era * 146097 + doe - 719468

\* date.toISOString(): a RangeError for an invalid date.
toISOString(t) ==
    IF t.nan THEN Throw
    ELSE
    LET c == CivilFromDays(t.sec \div 86400)
        s == t.sec % 86400
    IN  Value(pad(c.y, 4) \o <<"-">> \o pad(c.m, 2) \o <<"-">> \o pad(c.d, 2) \o <<"T">>
              \o pad(s \div 3600, 2) \o <<":">> \o pad((s % 3600) \div 60, 2) \o <<":">>
              \o pad(s % 60, 2) \o <<".">> \o pad(t.ms, 3) \o <<"Z">>)

AllDigits(s, from, to) == \A i \in from..to : IsDigit(s[i])

IsISOFormat(s) ==
    /\ Len(s) = 24
    /\ AllDigits(s, 1, 4) /\ s[5] = "-" /\ AllDigits(s, 6, 7) /\ s[8] = "-"
    /\ AllDigits(s, 9, 10) /\ s[11] = "T" /\ AllDigits(s, 12, 13) /\ s[14] = ":"
    /\ AllDigits(s, 15, 16) /\ s[17] = ":" /\ AllDigits(s, 18, 19) /\ s[20] = "."
    /\ AllDigits(s, 21, 23) /\ s[24] = "Z"

\* The time a text in the ISO format YYYY-MM-DDTHH:mm:ss.sssZ stands for.  A field
\* out of range gives an invalid date; for a day of 29 to 31 that the month does
\* not have, runtimes differ (lib.date).
ISODate(s) ==
    LET F(a, b) == digitsValue(SubSeq(s, a, b), 10)
        m == F(6, 7)
        d == F(9, 10)
        last == CivilFromDays(DaysFromCivil(F(1, 4), m, d))
    IN  IF m < 1 \/ m > 12 \/ d < 1 \/ d > 31
           \/ F(12, 13) > 23 \/ F(15, 16) > 59 \/ F(18, 19) > 59
        THEN InvalidDate
        ELSE IF last.m # m \/ last.d # d THEN lib.date
        ELSE Time(DaysFromCivil(F(1, 4), m, d) * 86400 + F(12, 13) * 3600
                  + F(15, 16) * 60 + F(18, 19), F(21, 23))

\* A constructor that takes an empty text for no argument: the current time.
DateParse_now(s) ==
    IF s = <<>> THEN Time(now, 0)
    ELSE IF IsISOFormat(s) THEN ISODate(s)
    ELSE lib.date

\* new Date(text): an empty text gives an invalid date, a text in the ISO format is
\* parsed as ECMAScript says, and for any other text the runtime's fallback parser
\* answers (lib.date).
DateParse(s) ==
    IF s = <<>> THEN InvalidDate
    ELSE IF IsISOFormat(s) THEN ISODate(s)
    ELSE lib.date

\* new Date(timestamp * 1000) and new Date(timestamp)
DateOf(n, perSecond) ==
    IF n.nan THEN InvalidDate
    ELSE Time(n.n \div perSecond, (n.n % perSecond) * (1000 \div perSecond))

RECURSIVE stripZeros(_)
stripZeros(ds) ==
    IF ds # <<>> /\ ds[Len(ds)] = "0" THEN stripZeros(SubSeq(ds, 1, Len(ds) - 1)) ELSE ds

\* (date.getTime() / 1000).toString() and date.getTime().toString(), for a time at
\* or after the epoch.
secondsToString(t) ==
    IF t.ms = 0 THEN toString(t.sec, 10)
    ELSE toString(t.sec, 10) \o <<".">> \o stripZeros(pad(t.ms, 3))

millisToString(t) ==
    IF t.sec = 0 THEN toString(t.ms, 10) ELSE toString(t.sec, 10) \o pad(t.ms, 3)

UnixSecToISO(text) == toISOString(DateOf(parseInt(trim(text), 10), 1))

ISOToUnixSec(text) ==
    LET date == DateParse(trim(text))
    IN  IF date.nan THEN Null ELSE Value(secondsToString(date))

UnixMsToISO(text) == toISOString(DateOf(parseInt(trim(text), 10), 1000))

ISOToUnixMs(text) ==
    LET date == DateParse(trim(text))
    IN  IF date.nan THEN Null ELSE Value(millisToString(date))

\* utils.getTimeDifference(from, to), both in milliseconds: the elapsed or remaining
\* time between the two, put into words.  The wording is a function of the
\* difference, written here as a term over it.
getTimeDifference(from, to) ==
    IF from.nan \/ to.nan THEN Value(<<"getTimeDifference(", "N", "a", "N", ")">>)
    ELSE Value(<<"getTimeDifference(">>
               \o toString(to.sec - from.sec + (to.ms - from.ms) \div 1000, 10) \o <<"s", "+">>
               \o toString((to.ms - from.ms) % 1000, 10) \o <<"m", "s", ")">>)

DurationFromNow(text) ==
    LET date == DateParse(trim(text))
    IN  getTimeDifference(Time(now, 0), date)

(***************************************************************************)
(* utils.splitIntoWords and the case conversions.                          *)
(***************************************************************************)
IsWordChar(c) == IsDigit(c) \/ IsLower(c) \/ IsUpper(c)

\* Whether a word ends between s[i - 1] and s[i], both word characters: at a
\* lower-to-upper hump, at a change between letter and digit, and before the last
\* capital of a run of capitals that a lowercase letter follows.
IsBoundary(s, i) ==
    \/ IsLower(s[i - 1]) /\ IsUpper(s[i])
    \/ IsDigit(s[i - 1]) # IsDigit(s[i])
    \/ IsUpper(s[i - 1]) /\ IsUpper(s[i]) /\ i < Len(s) /\ IsLower(s[i + 1])

\* Whether a word starts at s[i].
IsWordStart(s, i) ==
    IsWordChar(s[i]) /\ (i = 1 \/ ~IsWordChar(s[i - 1]) \/ IsBoundary(s, i))

\* The index of the last character of the word that holds s[i].
RECURSIVE wordEnd(_, _)
wordEnd(s, i) ==
    IF i < Len(s) /\ IsWordChar(s[i + 1]) /\ ~IsWordStart(s, i + 1) THEN wordEnd(s, i + 1)
    ELSE i

splitIntoWords(text) ==
    concat([i \in 1..Len(text) |->
              IF IsWordStart(text, i) THEN <<SubSeq(text, i, wordEnd(text, i))>> ELSE <<>>])

\* word[0].toUpperCase() + word.slice(1)
capitalize(word) == <<toUpperCaseChar(word[1])>> \o Tail(word)

\* words.map((word) => ...) with the callback of the given name.
mapWords(words, callback) ==
    [i \in 1..Len(words) |->
       IF callback = "toLowerCase" THEN toLowerCase(words[i])
       ELSE IF callback = "toUpperCase" THEN toUpperCase(words[i])
       ELSE capitalize(words[i])]

ConvertCamelCase(text) ==
    LET words == splitIntoWords(trim(text))
    IN  Value(join([i \in 1..Len(words) |->
                      IF i = 1 THEN words[i] ELSE capitalize(words[i])], <<>>))

ConvertPascalCase(text) ==
    Value(join(mapWords(splitIntoWords(trim(text)), "capitalize"), <<>>))

ConvertLowerKebabCase(text) ==
    Value(join(mapWords(splitIntoWords(trim(text)), "toLowerCase"), <<"-">>))

ConvertUpperKebabCase(text) ==
    Value(join(mapWords(splitIntoWords(trim(text)), "toUpperCase"), <<"-">>))

ConvertLowerSnakeCase(text) ==
    Value(join(mapWords(splitIntoWords(trim(text)), "toLowerCase"), <<"_">>))

ConvertUpperSnakeCase(text) ==
    Value(join(mapWords(splitIntoWords(trim(text)), "toUpperCase"), <<"_">>))

ConvertDotCase(text) ==
    Value(join(mapWords(splitIntoWords(trim(text)), "toLowerCase"), <<".">>))

ConvertLowercase(text) == Value(toLowerCase(text))
ConvertUppercase(text) == Value(toUpperCase(text))

ConvertWordsLowercase(text) ==
    Value(join(mapWords(splitIntoWords(trim(text)), "toLowerCase"), <<" ">>))

ConvertFirstWordCapitalized(text) ==
    LET words == splitIntoWords(trim(text))
    IN  Value(join([i \in 1..Len(words) |->
                      IF i = 1 THEN capitalize(words[i]) ELSE words[i]], <<" ">>))

ConvertWordsCapitalized(text) ==
    Value(join(mapWords(splitIntoWords(trim(text)), "capitalize"), <<" ">>))

GenerateFuzzySearchRegex(text) ==
    Value(join(splitIntoWords(trim(text)), <<".", "*">>))

(***************************************************************************)
(* JSON.  A JSON value is a record: a string or a number (its digits) in   *)
(* s, the members <<name, value>> of an object or the items of an array in *)
(* items.  The parser reads the part of JSON the texts of the model are    *)
(* in (a literal, a number, a string without escapes, an object of such    *)
(* members without white space); no text of the model is JSON outside it.  *)
(***************************************************************************)
JString(s) == [t |-> "string", s |-> s, items |-> <<>>]
JNumber(s) == [t |-> "number", s |-> s, items |-> <<>>]
JLiteral(s) == [t |-> "literal", s |-> s, items |-> <<>>]
JObject(members) == [t |-> "object", s |-> <<>>, items |-> members]
JArray(items) == [t |-> "array", s |-> <<>>, items |-> items]

\* JSON.stringify of a string
quote(s) ==
    <<"\"">>
    \o concat([i \in 1..Len(s) |->
                 IF s[i] \in {"\"", "\\"} THEN <<"\\", s[i]>>
                 ELSE IF s[i] = "\n" THEN <<"\\", "n">>
                 ELSE <<s[i]>>])
    \o <<"\"">>

spaces(n) == [i \in 1..n |-> " "]

\* JSON.stringify(value, null, gap) at the given depth of nesting.
RECURSIVE stringify(_, _, _)
stringify(v, gap, depth) ==
    LET open == IF gap = 0 THEN <<>> ELSE <<"\n">> \o spaces(gap * (depth + 1))
        close == IF gap = 0 THEN <<>> ELSE <<"\n">> \o spaces(gap * depth)
        colon == IF gap = 0 THEN <<":">> ELSE <<":", " ">>
        Member(m) == quote(m[1]) \o colon \o stringify(m[2], gap, depth + 1)
        Item(x) == stringify(x, gap, depth + 1)
    IN  IF v.t = "string" THEN quote(v.s)
        ELSE IF v.t \in {"number", "literal"} THEN v.s
        ELSE IF v.t = "object"
             THEN IF v.items = <<>> THEN <<"{", "}">>
                  ELSE <<"{">> \o open
                       \o join([i \in 1..Len(v.items) |-> Member(v.items[i])], <<",">> \o open)
                       \o close \o <<"}">>
        ELSE IF v.items = <<>> THEN <<"[", "]">>
             ELSE <<"[">> \o open
                  \o join([i \in 1..Len(v.items) |-> Item(v.items[i])], <<",">> \o open)
                  \o close \o <<"]">>

JSONStringify(v, gap) == stringify(v, gap, 0)

\* The order of an object's own properties: integer names ascending, then the other
\* names in the order they were first set; setting a name again replaces its value.
IsIntegerName(k) ==
    k # <<>> /\ Len(k) <= 9 /\ AllDigits(k, 1, Len(k)) /\ (k[1] # "0" \/ Len(k) = 1)

RECURSIVE ascending(_)
ascending(members) ==
    IF members = <<>> THEN <<>>
    ELSE LET least == CHOOSE i \in 1..Len(members) :
                        \A j \in 1..Len(members) :
                            digitsValue(members[i][1], 10) <= digitsValue(members[j][1], 10)
         IN  <<members[least]>>
             \o ascending([i \in 1..(Len(members) - 1) |->
                             IF i < least THEN members[i] ELSE members[i + 1]])

propertyOrder(members) ==
    ascending(SelectSeq(members, LAMBDA m : IsIntegerName(m[1])))
    \o SelectSeq(members, LAMBDA m : ~IsIntegerName(m[1]))

setProperty(members, k, v) ==
    IF \E i \in 1..Len(members) : members[i][1] = k
    THEN [i \in 1..Len(members) |-> IF members[i][1] = k THEN <<k, v>> ELSE members[i]]
    ELSE Append(members, <<k, v>>)

NoParse == [ok |-> FALSE, v |-> JLiteral(<<>>), rest |-> <<>>]
Parsed(v, rest) == [ok |-> TRUE, v |-> v, rest |-> rest]

\* A JSON number at the head of s: -? (0 | [1-9][0-9]*) (. [0-9]+)? ([eE] [+-]? [0-9]+)?
intPart(a) == IF a # <<>> /\ a[1] = "0" THEN <<"0">> ELSE digitPrefix(a, 10)

fracPart(b) ==
    IF b # <<>> /\ b[1] = "." /\ digitPrefix(Tail(b), 10) # <<>>
    THEN <<".">> \o digitPrefix(Tail(b), 10)
    ELSE <<>>

expPart(c) ==
    LET mark == IF Len(c) >= 2 /\ c[2] \in {"+", "-"} THEN 2 ELSE 1
    IN  IF c # <<>> /\ c[1] \in {"e", "E"} /\ digitPrefix(SubSeq(c, mark + 1, Len(c)), 10) # <<>>
        THEN SubSeq(c, 1, mark) \o digitPrefix(SubSeq(c, mark + 1, Len(c)), 10)
        ELSE <<>>

numberOf(s, sign, int, frac, exp) ==
    IF int = <<>> THEN NoParse
    ELSE IF frac = <<>> /\ exp = <<>>
         THEN Parsed(JNumber(IF int = <<"0">> THEN int ELSE sign \o int),
                     SubSeq(s, Len(sign) + Len(int) + 1, Len(s)))
    ELSE Parsed(JNumber(Opaque("Number", sign \o int \o frac \o exp)),
                SubSeq(s, Len(sign) + Len(int) + Len(frac) + Len(exp) + 1, Len(s)))

numberExp(s, sign, int, frac) ==
    numberOf(s, sign, int, frac,
             expPart(SubSeq(s, Len(sign) + Len(int) + Len(frac) + 1, Len(s))))

numberFrac(s, sign, int) ==
    numberExp(s, sign, int, fracPart(SubSeq(s, Len(sign) + Len(int) + 1, Len(s))))

numberSign(s, sign) == numberFrac(s, sign, intPart(SubSeq(s, Len(sign) + 1, Len(s))))

parseNumber(s) == numberSign(s, IF s # <<>> /\ s[1] = "-" THEN <<"-">> ELSE <<>>)

RECURSIVE untilQuote(_)
untilQuote(s) ==
    IF s = <<>> \/ s[1] = "\"" THEN <<>> ELSE <<s[1]>> \o untilQuote(Tail(s))

\* A JSON string without escapes at the head of s.
parseString(s) ==
    LET body == IF s # <<>> /\ s[1] = "\"" THEN untilQuote(Tail(s)) ELSE <<>>
    IN  IF s = <<>> \/ s[1] # "\"" \/ Len(s) < Len(body) + 2
           \/ \E i \in 1..Len(body) : body[i] = "\\" \/ body[i] \notin PrintableSet
        THEN NoParse
        ELSE Parsed(JString(body), SubSeq(s, Len(body) + 3, Len(s)))

StartsWith(s, prefix) == Len(s) >= Len(prefix) /\ SubSeq(s, 1, Len(prefix)) = prefix

parseScalar(s) ==
    IF s = <<>> THEN NoParse
    ELSE IF s[1] = "\"" THEN parseString(s)
    ELSE IF StartsWith(s, <<"t", "r", "u", "e">>)
         THEN Parsed(JLiteral(<<"t", "r", "u", "e">>), SubSeq(s, 5, Len(s)))
    ELSE IF StartsWith(s, <<"f", "a", "l", "s", "e">>)
         THEN Parsed(JLiteral(<<"f", "a", "l", "s", "e">>), SubSeq(s, 6, Len(s)))
    ELSE IF StartsWith(s, <<"n", "u", "l", "l">>)
         THEN Parsed(JLiteral(<<"n", "u", "l", "l">>), SubSeq(s, 5, Len(s)))
    ELSE parseNumber(s)

\* The members after the opening brace, s at the head of a member.
RECURSIVE parseMembers(_, _)
RECURSIVE membersAfter(_, _)

membersAfter(after, value) ==
    IF ~value.ok \/ value.rest = <<>> THEN NoParse
    ELSE IF value.rest[1] = "}" THEN Parsed(JObject(propertyOrder(after)), Tail(value.rest))
    ELSE IF value.rest[1] = "," THEN parseMembers(Tail(value.rest), after)
    ELSE NoParse

memberValue(members, name, value) ==
    membersAfter(setProperty(members, name.v.s, value.v), value)

memberName(members, name) ==
    memberValue(members, name,
                IF name.ok /\ name.rest # <<>> /\ name.rest[1] = ":"
                THEN parseScalar(Tail(name.rest)) ELSE NoParse)

parseMembers(s, members) == memberName(members, parseString(s))

parseValue(s) ==
    IF s # <<>> /\ s[1] = "{"
    THEN IF Len(s) >= 2 /\ s[2] = "}" THEN Parsed(JObject(<<>>), SubSeq(s, 3, Len(s)))
         ELSE parseMembers(Tail(s), <<>>)
    ELSE parseScalar(s)

\* JSON.parse(text): ok is FALSE where it throws a SyntaxError.
JSONParse(text) ==
    LET r == parseValue(trim(text))
    IN  IF r.ok /\ r.rest = <<>> THEN r ELSE NoParse

PrettifyJSON(text) ==
    LET json == JSONParse(text)
    IN  IF json.ok THEN Value(JSONStringify(json.v, 2)) ELSE Throw

MinifyJSON(text) ==
    LET json == JSONParse(text)
    IN  IF json.ok THEN Value(JSONStringify(json.v, 0)) ELSE Throw

EscapeAsJSONString(text) == Value(quote(text))

ConvertJSONToForm(text) ==
    LET json == JSONParse(trim(text))
    IN  IF json.ok THEN Value(Opaque("qs.stringify", JSONStringify(json.v, 0))) ELSE Throw

ConvertFormToJSON(text) ==
    Value(Opaque("JSON.stringify", Opaque("qs.parse", trim(text))))

CalculateMd5(text) == Value(Opaque("md5", text))
CalculateSha1(text) == Value(Opaque("sha1", text))
CalculateSha256(text) == Value(Opaque("sha256", text))

(***************************************************************************)
(* The JWT manipulations.                                                  *)
(***************************************************************************)
IsJwtChar(c) == IsDigit(c) \/ IsLower(c) \/ IsUpper(c) \/ c \in {"_", "-"}

\* The index after the longest run of [a-zA-Z0-9_-] that starts at i.
RECURSIVE runEnd(_, _)
runEnd(text, i) ==
    IF i <= Len(text) /\ IsJwtChar(text[i]) THEN runEnd(text, i + 1) ELSE i

\* Whether e, y, J stand at i.
eyJAt(text, i) ==
    i + 2 <= Len(text) /\ text[i] = "e" /\ text[i + 1] = "y" /\ text[i + 2] = "J"

\* The index after the match of
\* /(eyJ[a-zA-Z0-9_-]+?\.eyJ[a-zA-Z0-9_-]+?\.[a-zA-Z0-9_-]*)/ that starts at p, or 0.
\* No character of the class is a dot, so each lazy run reaches to the next dot.
matchAt(text, p) ==
    IF ~eyJAt(text, p) THEN 0
    ELSE
    LET d1 == runEnd(text, p + 3)
    IN  IF d1 = p + 3 \/ d1 > Len(text) \/ text[d1] # "." \/ ~eyJAt(text, d1 + 1) THEN 0
        ELSE
        LET d2 == runEnd(text, d1 + 4)
        IN  IF d2 = d1 + 4 \/ d2 > Len(text) \/ text[d2] # "." THEN 0
            ELSE runEnd(text, d2 + 1)

\* text.matchAll(regex), text.match(regex): the matches from left to right.
RECURSIVE matchesFrom(_, _)
matchesFrom(text, p) ==
    IF p > Len(text) THEN <<>>
    ELSE LET e == matchAt(text, p)
         IN  IF e = 0 THEN matchesFrom(text, p + 1)
             ELSE <<SubSeq(text, p, e - 1)>> \o matchesFrom(text, e)

matchAll(text) == matchesFrom(text, 1)

RECURSIVE split(_, _)
split(s, sep) ==
    IF \E i \in 1..Len(s) : s[i] = sep
    THEN LET i == CHOOSE i \in 1..Len(s) : s[i] = sep /\ \A j \in 1..(i - 1) : s[j] # sep
         IN  <<SubSeq(s, 1, i - 1)>> \o split(SubSeq(s, i + 1, Len(s)), sep)
    ELSE <<s>>

ExtractJWT(text) ==
    LET matches == matchAll(text)
    IN  IF matches = <<>> THEN Null ELSE Value(join(matches, <<"\n">>))

\* payload.iat: the member of that name, or undefined.
member(json, name) ==
    IF json.t = "object" /\ \E i \in 1..Len(json.items) : json.items[i][1] = name
    THEN <<json.items[CHOOSE i \in 1..Len(json.items) : json.items[i][1] = name][2]>>
    ELSE <<>>

\* payload.iat ? ... : undefined
IsTruthy(m) ==
    /\ m # <<>>
    /\ m[1].t \in {"number", "string"} => m[1].s \notin {<<>>, <<"0">>}
    /\ m[1].t = "literal" => m[1].s = <<"t", "r", "u", "e">>

\* new Date(claim * 1000): a claim that is no number of seconds gives an invalid date.
DateOfClaim(v) ==
    IF v.t \in {"number", "string"} /\ v.s # <<>> /\ AllDigits(v.s, 1, Len(v.s))
    THEN Time(digitsValue(v.s, 10), 0)
    ELSE IF v.t = "literal" /\ v.s = <<"t", "r", "u", "e">> THEN Time(1, 0)
    ELSE InvalidDate

\* payload.iat ? new Date(payload.iat * 1000).toISOString() : undefined, <<>> for
\* undefined.
isoOf(payload, name) ==
    IF IsTruthy(member(payload, name))
    THEN <<toISOString(DateOfClaim(member(payload, name)[1]))>>
    ELSE <<>>

\* JSON.stringify leaves out a property whose value is undefined.
isoProperty(name, iso) ==
    IF iso = <<>> THEN <<>>
    ELSE <<<<name \o <<"_", "i", "s", "o", "8", "6", "0", "1">>, JString(iso[1].v)>>>>

\* The object the callback returns as JSON; an invalid date throws a RangeError.
decodedObject(header, payload, iat, nbf, exp, signature) ==
    IF \E iso \in {iat, nbf, exp} : iso # <<>> /\ iso[1].kind = "throw" THEN Throw
    ELSE Value(JSONStringify(
           JObject(<<<<<<"h", "e", "a", "d", "e", "r">>, header>>,
                     <<<<"p", "a", "y", "l", "o", "a", "d">>, payload>>>>
                   \o isoProperty(<<"i", "a", "t">>, iat)
                   \o isoProperty(<<"n", "b", "f">>, nbf)
                   \o isoProperty(<<"e", "x", "p">>, exp)
                   \o <<<<<<"s", "i", "g", "n", "a", "t", "u", "r", "e">>,
                          JString(signature)>>>>), 2))

\* JSON.parse throws a SyntaxError on a header or a payload that is no JSON.
decodeJson(header, payload, signature) ==
    IF ~header.ok \/ ~payload.ok THEN Throw
    ELSE decodedObject(header.v, payload.v, isoOf(payload.v, <<"i", "a", "t">>),
                       isoOf(payload.v, <<"n", "b", "f">>),
                       isoOf(payload.v, <<"e", "x", "p">>), signature)

decodeParts(jwt, parts) ==
    IF Len(parts) # 3 THEN Value(jwt)
    ELSE decodeJson(JSONParse(utf8Decode(base64Decode(parts[1]))),
                    JSONParse(utf8Decode(base64Decode(parts[2]))), parts[3])

\* The callback of the map over the matches: what it returns for one match, or
\* Throw.
decodeJwt(jwt) == decodeParts(jwt, split(jwt, "."))

\* matches.map(callback).join("\n"): an error thrown by the callback for one match
\* leaves the map and the manipulation.
joinDecoded(decoded) ==
    IF \E i \in 1..Len(decoded) : decoded[i].kind = "throw" THEN Throw
    ELSE Value(join([i \in 1..Len(decoded) |-> decoded[i].v], <<"\n">>))

mapDecode(matches) == [i \in 1..Len(matches) |-> decodeJwt(matches[i])]

ExtractAndDecodeJWT(text) == joinDecoded(mapDecode(matchAll(text)))

(***************************************************************************)
(* Parse URL.  The URL parser reads http://host[/path][?query][#hash] with *)
(* a host of lowercase letters and dots and a path, query and hash of      *)
(* letters, digits, - _ / = &, which the parser neither rewrites nor       *)
(* escapes; no other text of the model is a URL.                           *)
(***************************************************************************)
IsHostChar(c) == IsLower(c) \/ c = "."
IsUrlChar(c) == IsDigit(c) \/ IsLower(c) \/ IsUpper(c) \/ c \in {"-", "_", "/", "=", "&"}

\* The index of the first character of s at or after i that is in the set, or
\* Len(s) + 1.
RECURSIVE findFirst(_, _, _)
findFirst(s, i, set) ==
    IF i > Len(s) \/ s[i] \in set THEN i ELSE findFirst(s, i + 1, set)

HttpPrefix == <<"h", "t", "t", "p", ":", "/", "/">>

NotAURL == [ok |-> FALSE, host |-> <<>>, pathname |-> <<>>, hasQuery |-> FALSE,
            query |-> <<>>, hasHash |-> FALSE, fragment |-> <<>>]

\* new URL(text): ok is FALSE where it throws a TypeError.
URLParse(text) ==
    IF ~StartsWith(text, HttpPrefix) THEN NotAURL
    ELSE
    LET hostEnd == findFirst(text, 8, {"/", "?", "#"})
        pathEnd == findFirst(text, hostEnd, {"?", "#"})
        queryEnd == findFirst(text, pathEnd, {"#"})
        host == SubSeq(text, 8, hostEnd - 1)
        path == SubSeq(text, hostEnd, pathEnd - 1)
        hasQuery == pathEnd <= Len(text) /\ text[pathEnd] = "?"
        query == SubSeq(text, pathEnd + 1, queryEnd - 1)
        hasHash == queryEnd <= Len(text)
        fragment == SubSeq(text, queryEnd + 1, Len(text))
    IN  IF host = <<>> \/ \E i \in 1..Len(host) : ~IsHostChar(host[i]) THEN NotAURL
        ELSE IF \E i \in (hostEnd..Len(text)) \ {pathEnd, queryEnd} : ~IsUrlChar(text[i])
             THEN NotAURL
        ELSE [ok |-> TRUE, host |-> host,
              pathname |-> IF path = <<>> THEN <<"/">> ELSE path,
              hasQuery |-> hasQuery, query |-> query,
              hasHash |-> hasHash, fragment |-> fragment]

\* url.searchParams: the query is cut at each &, empty pieces are dropped, and a
\* piece is cut at its first = into a name and a value.
searchParams(query) ==
    LET pieces == SelectSeq(split(query, "&"), LAMBDA piece : piece # <<>>)
        Pair(piece) ==
            LET eq == findFirst(piece, 1, {"="})
            IN  <<SubSeq(piece, 1, eq - 1), SubSeq(piece, eq + 1, Len(piece))>>
    IN  [i \in 1..Len(pieces) |-> Pair(pieces[i])]

\* [...url.searchParams.keys()]: one name per pair, repeated names repeated.
keys(params) == [i \in 1..Len(params) |-> params[i][1]]

\* A lookup that takes the last pair of the name.
get_last(params, key) ==
    params[CHOOSE i \in 1..Len(params) :
             params[i][1] = key /\ \A j \in (i + 1)..Len(params) : params[j][1] # key][2]

\* url.searchParams.get(key): the value of the first pair of that name.
get(params, key) ==
    params[CHOOSE i \in 1..Len(params) :
             params[i][1] = key /\ \A j \in 1..(i - 1) : params[j][1] # key][2]

\* url.searchParams.getAll(key): the values of all pairs of that name.
getAll(params, key) ==
    LET named == SelectSeq(params, LAMBDA pair : pair[1] = key)
    IN  [i \in 1..Len(named) |-> named[i][2]]

\* Object.fromEntries(entries)
RECURSIVE fromEntries(_, _)
fromEntries(entries, members) ==
    IF entries = <<>> THEN propertyOrder(members)
    ELSE fromEntries(Tail(entries), setProperty(members, entries[1][1], entries[1][2]))

ParseURL(text) ==
    LET url == URLParse(trim(text))
        params == searchParams(url.query)
        searchParamKeys == keys(params)
        origin == HttpPrefix \o url.host
        search == IF url.query = <<>> THEN <<>> ELSE <<"?">> \o url.query
        hash == IF url.fragment = <<>> THEN <<>> ELSE <<"#">> \o url.fragment
        href == origin \o url.pathname
                \o (IF url.hasQuery THEN <<"?">> \o url.query ELSE <<>>)
                \o (IF url.hasHash THEN <<"#">> \o url.fragment ELSE <<>>)
        S(name, value) == <<name, JString(value)>>
    IN  IF ~url.ok THEN Throw
        ELSE Value(JSONStringify(JObject(<<
            S(<<"h", "r", "e", "f">>, href),
            S(<<"o", "r", "i", "g", "i", "n">>, origin),
            S(<<"p", "r", "o", "t", "o", "c", "o", "l">>, <<"h", "t", "t", "p", ":">>),
            S(<<"u", "s", "e", "r", "n", "a", "m", "e">>, <<>>),
            S(<<"p", "a", "s", "s", "w", "o", "r", "d">>, <<>>),
            S(<<"h", "o", "s", "t">>, url.host),
            S(<<"p", "o", "r", "t">>, <<>>),
            S(<<"h", "o", "s", "t", "n", "a", "m", "e">>, url.host),
            S(<<"p", "a", "t", "h", "n", "a", "m", "e">>, url.pathname),
            S(<<"s", "e", "a", "r", "c", "h">>, search),
            <<<<"s", "e", "a", "r", "c", "h", "P", "a", "r", "a", "m", "s">>,
              JObject(fromEntries(
                  [i \in 1..Len(searchParamKeys) |->
                     <<searchParamKeys[i], JString(get(params, searchParamKeys[i]))>>],
                  <<>>))>>,
            <<<<"s", "e", "a", "r", "c", "h", "A", "l", "l", "P", "a", "r", "a", "m", "s">>,
              JObject(fromEntries(
                  [i \in 1..Len(searchParamKeys) |->
                     <<searchParamKeys[i],
                       JArray([j \in 1..Len(getAll(params, searchParamKeys[i])) |->
                                JString(getAll(params, searchParamKeys[i])[j])])>>],
                  <<>>))>>,
            S(<<"h", "a", "s", "h">>, hash)>>), 2))

(***************************************************************************)
(* The catalog and the runner.                                             *)
(***************************************************************************)
manipulations ==
    <<"Raw", "Hex encoding", "Hex decoding", "Base64 encoding", "Base64 decoding",
      "URL encoding", "URL decoding", "HTML encoding", "HTML decoding", "Parse URL",
      "Convert UNIX timestamp (sec) to ISO 8601", "Convert ISO 8601 to UNIX timestamp (sec)",
      "Convert UNIX timestamp (ms) to ISO 8601", "Convert ISO 8601 to UNIX timestamp (ms)",
      "Convert duration from now", "Prettify JSON", "Minify JSON", "Escape as JSON string",
      "Convert JSON to form", "Convert form to JSON", "Extract JWT", "Extract and Decode JWT",
      "Calculate md5", "Calculate sha1", "Calculate sha256", "Convert camelCase",
      "Convert PascalCase", "Convert lower-kebab-case", "Convert UPPER-KEBAB-CASE",
      "Convert lower_snake_case", "Convert UPPER_SNAKE_CASE", "Convert dot.case",
      "Convert lowercase", "Convert UPPERCASE", "Convert words lowercase",
      "Convert First word capitalized", "Convert Words Capitalized",
      "Generate fuzzy search regex", "Hex(16) to Decimal(10)", "Hex(16) to Binary(2)",
      "Decimal(10) to Hex(16)", "Decimal(10) to Binary(2)", "Binary(2) to Hex(16)",
      "Binary(2) to Decimal(10)">>

\* converter.manipulation(text) of the catalog entry of the given key.
manipulation(key, text) ==
    CASE key = "Raw" -> Value(text)
      [] key = "Hex encoding" -> HexEncoding(text)
      [] key = "Hex decoding" -> HexDecoding(text)
      [] key = "Base64 encoding" -> Base64Encoding(text)
      [] key = "Base64 decoding" -> Base64Decoding(text)
      [] key = "URL encoding" -> URLEncoding(text)
      [] key = "URL decoding" -> URLDecoding(text)
      [] key = "HTML encoding" -> HTMLEncoding(text)
      [] key = "HTML decoding" -> HTMLDecoding(text)
      [] key = "Parse URL" -> ParseURL(text)
      [] key = "Convert UNIX timestamp (sec) to ISO 8601" -> UnixSecToISO(text)
      [] key = "Convert ISO 8601 to UNIX timestamp (sec)" -> ISOToUnixSec(text)
      [] key = "Convert UNIX timestamp (ms) to ISO 8601" -> UnixMsToISO(text)
      [] key = "Convert ISO 8601 to UNIX timestamp (ms)" -> ISOToUnixMs(text)
      [] key = "Convert duration from now" -> DurationFromNow(text)
      [] key = "Prettify JSON" -> PrettifyJSON(text)
      [] key = "Minify JSON" -> MinifyJSON(text)
      [] key = "Escape as JSON string" -> EscapeAsJSONString(text)
      [] key = "Convert JSON to form" -> ConvertJSONToForm(text)
      [] key = "Convert form to JSON" -> ConvertFormToJSON(text)
      [] key = "Extract JWT" -> ExtractJWT(text)
      [] key = "Extract and Decode JWT" -> ExtractAndDecodeJWT(text)
      [] key = "Calculate md5" -> CalculateMd5(text)
      [] key = "Calculate sha1" -> CalculateSha1(text)
      [] key = "Calculate sha256" -> CalculateSha256(text)
      [] key = "Convert camelCase" -> ConvertCamelCase(text)
      [] key = "Convert PascalCase" -> ConvertPascalCase(text)
      [] key = "Convert lower-kebab-case" -> ConvertLowerKebabCase(text)
      [] key = "Convert UPPER-KEBAB-CASE" -> ConvertUpperKebabCase(text)
      [] key = "Convert lower_snake_case" -> ConvertLowerSnakeCase(text)
      [] key = "Convert UPPER_SNAKE_CASE" -> ConvertUpperSnakeCase(text)
      [] key = "Convert dot.case" -> ConvertDotCase(text)
      [] key = "Convert lowercase" -> ConvertLowercase(text)
      [] key = "Convert UPPERCASE" -> ConvertUppercase(text)
      [] key = "Convert words lowercase" -> ConvertWordsLowercase(text)
      [] key = "Convert First word capitalized" -> ConvertFirstWordCapitalized(text)
      [] key = "Convert Words Capitalized" -> ConvertWordsCapitalized(text)
      [] key = "Generate fuzzy search regex" -> GenerateFuzzySearchRegex(text)
      [] key = "Hex(16) to Decimal(10)" -> HexToDecimal(text)
      [] key = "Hex(16) to Binary(2)" -> HexToBinary(text)
      [] key = "Decimal(10) to Hex(16)" -> DecimalToHex(text)
      [] key = "Decimal(10) to Binary(2)" -> DecimalToBinary(text)
      [] key = "Binary(2) to Hex(16)" -> BinaryToHex(text)
      [] key = "Binary(2) to Decimal(10)" -> BinaryToDecimal(text)

\* try { value = converter.manipulation(string) } catch (error) { value = null }
tryCatch(attempt) == IF attempt.kind = "throw" THEN Null ELSE attempt

\* A default written with String(value): a null is recorded as the text null.
orEmpty_string(value) == IF value.kind = "null" THEN <<"n", "u", "l", "l">> ELSE value.v

\* value ?? ""
orEmpty(value) == IF value.kind = "null" THEN <<>> ELSE value.v

\* The callback of the map over the catalog.
converter(key, string) ==
    [key |-> key, value |-> orEmpty(tryCatch(manipulation(key, string)))]

\* A runner that keeps only the results that have a value.
manipulateString_filtered(string) ==
    SelectSeq([i \in 1..Len(manipulations) |-> converter(manipulations[i], string)],
              LAMBDA result : result.value # <<>>)

manipulateString(string) ==
    [i \in 1..Len(manipulations) |-> converter(manipulations[i], string)]

(***************************************************************************)
(* The texts the clipboard holds in the model.                             *)
(***************************************************************************)
D1 == <<"1", "2", "8">>
D2 == <<"1", "7", "2">>
D3 == <<"2", "5", "5">>
B0 == <<"0", "0", "0", "0", "0", "0", "0", "0">>
B1 == <<"0", "0", "0", "0", "0", "0", "0", "1">>
B2 == <<"1", "1", "1", "1", "1", "1", "1", "1">>
M1 == <<" ", "2", "5", " ">>
M2 == <<"0", "x", "1", "f">>
M3 == <<"-", "5">>
M4 == <<"1", "2", "a", "b", "c">>
M5 == <<"x", "y", "z">>
W1 == <<"f", "o", "o">>
W2 == <<"F", "o", "o">>
W3 == <<"B", "A", "R">>
W4 == <<"b", "a", "r", "2">>
W5 == <<"H", "T", "T", "P", "S", "e", "r", "v", "e", "r">>
C1Text == <<"f", "o", "o", "B", "a", "r">>
C2Text == <<"f", "o", "o", "B", "a", "r", "B", "A", "Z", "_", "q", "u", "x", "-", "q", "u", "u", "x">>
JwtExample == <<"e", "y", "J", "h", "b", "G", "c", "i", "O", "i", "J", "I", "U", "z", "I", "1", "N", "i", "J", "9", ".", "e", "y", "J", "z", "d", "W", "I", "i", "O", "i", "I", "x", "M", "j", "M", "0", "N", "T", "Y", "3", "O", "D", "k", "w", "I", "n", "0", ".", "s", "i", "g">>
JwtIat == <<"e", "y", "J", "h", "I", "j", "o", "x", "f", "Q", ".", "e", "y", "J", "p", "Y", "X", "Q", "i", "O", "j", "d", "9", ".">>
JwtBadPayload == <<"e", "y", "J", "h", "I", "j", "o", "x", "f", "Q", ".", "e", "y", "J", "h", ".", "s">>
JwtBadHeader == <<"e", "y", "J", "h", ".", "e", "y", "J", "h", "I", "j", "o", "x", "f", "Q", ".", "s">>
UrlBase == <<"h", "t", "t", "p", ":", "/", "/", "h", ".", "i", "o", "/", "p">>
DBad == <<"1", "9", "7", "0", "-", "0", "2", "-", "3", "0", "T", "0", "0", ":", "0", "0", ":", "0", "0", ".", "0", "0", "0", "Z">>

Strings(alphabet, lo, hi) == UNION {[1..k -> alphabet] : k \in lo..hi}

DecimalDigits == {"0", "1", "2", "5"}
HexDigits == {"0", "1", "8", "a", "f"}
Bits == {"0", "1"}

\* Decimal and hexadecimal numerals, leading zeros included.
DecimalTexts == Strings(DecimalDigits, 1, MaxDecLen) \cup {D1, D2, D3}
HexTexts == Strings(HexDigits, 1, MaxHexLen)

\* Binary numerals in groups of 8 bits with a leading 1 bit, and the one-group
\* numerals written as two groups of 4.
LeadingOctets ==
    {<<"1">> \o high \o low :
        high \in [1..3 -> Bits], low \in {<<"0", "0", "0", "0">>, <<"1", "1", "0", "1">>}}
LaterOctets == {B0, B1, B2}
BinaryTexts ==
    {join(<<first>> \o later, <<" ">>) :
        first \in LeadingOctets, later \in Strings(LaterOctets, 0, MaxGroups - 1)}
    \cup {SubSeq(o, 1, 4) \o <<" ">> \o SubSeq(o, 5, 8) : o \in LeadingOctets}

\* Texts that are hexadecimal up to a point.
HexDecodeTexts == Strings({"4", "6", "g"}, 0, MaxHexText)

OtherTexts == {<<>>, <<" ">>, M1, M2, M3, M4, M5}

Words == {W1, W2, W3, W4}
Separators == {<<>>, <<"_">>, <<"-">>, <<" ">>}
CaseTexts ==
    {join(ws, sep) : ws \in Strings(Words, 1, MaxWords), sep \in Separators}
    \cup {W5, C1Text, C2Text}

Jwts == {JwtExample, JwtIat, JwtBadPayload, JwtBadHeader}
JwtTexts ==
    {join(js, <<" ">>) : js \in Strings(Jwts, 1, MaxJwts)}
    \cup {<<"p", "r", "e", "f", "i", "x", " ">> \o j \o <<" ", "s", "u", "f", "f", "i", "x">> :
            j \in Jwts}

QueryNames == {<<"a">>, <<"b">>}
QueryValues == {<<"1">>, <<"2">>}
Queries ==
    {join([i \in 1..Len(ps) |-> ps[i][1] \o <<"=">> \o ps[i][2]], <<"&">>) :
        ps \in Strings(QueryNames \X QueryValues, 0, MaxPairs)}
UrlTexts ==
    {UrlBase \o <<"?">> \o q : q \in Queries}
    \cup {UrlBase, UrlBase \o <<"?", "a", "=", "1", "&", "&", "a", "&", "b", "=", "#", "x">>}

DateTexts ==
    {<<"1", "9", "7", "0", "-", "0", "1", "-", "0", "1", "T", "0", "0", ":", "0", "0", ":",
       "0", DigitChar(d), ".", "0", "0", "0", "Z">> : d \in 0..MaxNow}
    \cup {DBad}

Texts ==
    DecimalTexts \cup HexTexts \cup BinaryTexts \cup HexDecodeTexts \cup OtherTexts
    \cup CaseTexts \cup JwtTexts \cup UrlTexts \cup DateTexts

(***************************************************************************)
(* The state machine: the clipboard text arrives, the command renders it   *)
(* (manipulateString is called), and time passes.                          *)
(***************************************************************************)
Undefined == <<"<undefined>">>

includes(text, part) ==
    \E i \in 1..(Len(text) - Len(part) + 1) : SubSeq(text, i, i + Len(part) - 1) = part

\* The filter drops a text that holds U+FFFD read as Latin-1 (the three characters
\* U+00EF, U+00BF, U+00BD), and an empty text.
filtering(text) ==
    ~includes(text, <<CodePoint(239), CodePoint(191), CodePoint(189)>>) /\ text # <<>>

Init ==
    /\ data = Undefined
    /\ lib = [date |-> InvalidDate]
    /\ now = 0
    /\ results = <<>>
    /\ list = <<>>
    /\ previous = <<>>

\* usePromise(Clipboard.readText, []) runs once, when the command is mounted, and
\* resolves with the clipboard text.
ReadText ==
    /\ data = Undefined
    /\ \E text \in Texts, date \in LegacyDates :
          /\ data' = text
          /\ lib' = [date |-> date]
    /\ UNCHANGED <<now, results, list, previous>>

\* The command renders: the list is empty while data is undefined, and then holds
\* an item for each result of manipulateString(data) that passes the filter.
Render ==
    /\ data # Undefined
    /\ results' = manipulateString(data)
    /\ list' = SelectSeq(results', LAMBDA result : filtering(result.value))
    /\ previous' = results
    /\ UNCHANGED <<data, lib, now>>

Tick ==
    /\ now < MaxNow
    /\ now' = now + 1
    /\ UNCHANGED <<data, lib, results, list, previous>>

Next == ReadText \/ Render \/ Tick

Spec == Init /\ [][Next]_vars

(***************************************************************************)
(* The properties.  Called holds once manipulateString has returned, and   *)
(* ResultOf(key) is the value it recorded for the catalog entry of that    *)
(* key.                                                                    *)
(***************************************************************************)
Called == results # <<>>

Index(key) == CHOOSE i \in 1..Len(manipulations) : manipulations[i] = key

ResultOf(key) == results[Index(key)].value

\* How the manipulations of the catalog end on the text of this state.
Ending(kind) ==
    {manipulations[i] : i \in {j \in 1..Len(manipulations) :
                                  manipulation(manipulations[j], data).kind = kind}}

Thrown == Ending("throw")
Nulls == Ending("null")

\* C1: whatever the input, the empty string included, manipulateString returns one
\* result per catalog entry: as many results as the catalog has entries, and the
\* i-th result has the key of the i-th entry, however many manipulations throw or
\* return null.
C1_OneResultPerEntry ==
    Called =>
        /\ Len(results) = Len(manipulations)
        /\ \A i \in 1..Len(manipulations) : results[i].key = manipulations[i]

\* The runner has returned for the empty string, on which several manipulations
\* throw and some return null.
C1_Witness ==
    Called /\ data = <<>> /\ Cardinality(Thrown) >= 2 /\ Nulls # {}

\* What the i-th manipulation gives by itself on the text of this state: its value,
\* or the empty string if it throws or returns null.
Alone(i) ==
    LET attempt == manipulation(manipulations[i], data)
    IN  IF attempt.kind = "value" THEN attempt.v ELSE <<>>

\* C2: in a call of manipulateString a manipulation that throws or returns null is
\* recorded with the empty string, the call itself returns, and every entry has the
\* value its own manipulation gives, whatever the entries at the other positions
\* did.
C2_FailureIsolated ==
    [][Render =>
         /\ Len(results') = Len(manipulations)
         /\ \A i \in 1..Len(manipulations) : results'[i].value = Alone(i)]_vars

\* The runner has returned for a text on which one manipulation threw, a later one
\* returned null and a still later one has a value.
C2_Witness ==
    /\ Called
    /\ \E i \in 1..Len(manipulations) :
          /\ manipulations[i] \in Thrown
          /\ results[i].value = <<>>
          /\ \E j \in (i + 1)..Len(manipulations) :
                /\ manipulations[j] \in Nulls
                /\ results[j].value = <<>>
                /\ \E k \in (j + 1)..Len(manipulations) : results[k].value # <<>>

\* The digits cut into consecutive windows of 8 characters, the last one shorter
\* when the count is no multiple of 8, joined by single spaces.
Windows(digits) ==
    join([i \in 1..((Len(digits) + 7) \div 8) |->
            SubSeq(digits, 8 * i - 7, IF 8 * i < Len(digits) THEN 8 * i ELSE Len(digits))],
         <<" ">>)

\* C3: for every non-negative integer n that "Decimal(10) to Binary(2)" or
\* "Hex(16) to Binary(2)" accepts, the result is the binary digits of n in windows
\* of 8 characters separated by single spaces, the last window shorter when the
\* count of digits is no multiple of 8, so that no digit is dropped.
C3_BinaryWindows ==
    Called =>
        /\ LET n == parseInt(trim(data), 10)
           IN  ~n.nan /\ n.n >= 0 =>
                 ResultOf("Decimal(10) to Binary(2)") = Windows(toString(n.n, 2))
        /\ LET n == parseInt(trim(data), 16)
           IN  ~n.nan /\ n.n >= 0 =>
                 ResultOf("Hex(16) to Binary(2)") = Windows(toString(n.n, 2))

\* Whether the header or the payload of a match is no base64url JSON.
Undecodable(jwt) ==
    LET parts == split(jwt, ".")
    IN  \/ ~JSONParse(utf8Decode(base64Decode(parts[1]))).ok
        \/ ~JSONParse(utf8Decode(base64Decode(parts[2]))).ok

\* C4: when the text holds several matches and the header or the payload of one of
\* them does not decode, "Extract and Decode JWT" gives the raw text of that match
\* at its place in the output and the pretty JSON of the other matches.
C4_BadMatchFallsBack ==
    Called =>
        LET matches == matchAll(data)
            Entry(jwt) == IF Undecodable(jwt) THEN jwt ELSE decodeJwt(jwt).v
        IN  (/\ Len(matches) >= 2
             /\ \E i \in 1..Len(matches) : Undecodable(matches[i])
             /\ \E i \in 1..Len(matches) : ~Undecodable(matches[i]))
            => ResultOf("Extract and Decode JWT")
                 = join([i \in 1..Len(matches) |-> Entry(matches[i])], <<"\n">>)

\* C6: "Convert camelCase" gives the first token of the trimmed text in lower case,
\* then each later token with its first letter in upper case and the rest as it
\* is, with nothing between them; so fooBar is left as it is.
C6_CamelCase ==
    Called =>
        LET words == splitIntoWords(trim(data))
        IN  ResultOf("Convert camelCase")
              = concat([i \in 1..Len(words) |->
                          IF i = 1 THEN toLowerCase(words[i])
                          ELSE <<toUpperCaseChar(words[i][1])>> \o Tail(words[i])])

\* The numeric base conversions: the base each reads, and the text each parses.
Conversions ==
    {"Hex(16) to Decimal(10)", "Hex(16) to Binary(2)", "Decimal(10) to Hex(16)",
     "Decimal(10) to Binary(2)", "Binary(2) to Hex(16)", "Binary(2) to Decimal(10)"}

SourceBase(key) ==
    IF key \in {"Hex(16) to Decimal(10)", "Hex(16) to Binary(2)"} THEN 16
    ELSE IF key \in {"Decimal(10) to Hex(16)", "Decimal(10) to Binary(2)"} THEN 10
    ELSE 2

SourceText(key, text) ==
    IF SourceBase(key) = 2 THEN SelectSeq(trim(text), LAMBDA c : c # " ") ELSE trim(text)

\* C9: each of the six numeric base conversions returns the empty string, without
\* throwing, on a text that does not parse as an integer in its source base, and
\* does not throw on a text that parses.
C9_NumericFailures ==
    Called =>
        \A key \in Conversions :
            IF parseInt(SourceText(key, data), SourceBase(key)).nan
            THEN manipulation(key, data) = Value(<<>>)
            ELSE manipulation(key, data).kind # "throw"

\* The pairs of the query of a parseable URL, and what a mapping over its distinct
\* names looks like in the output: a member of the object at the top.
QueryPairs == searchParams(URLParse(trim(data)).query)

NamesOf(pairs) ==
    LET firsts == {i \in 1..Len(pairs) : \A j \in 1..(i - 1) : pairs[j][1] # pairs[i][1]}
    IN  concat([i \in 1..Len(pairs) |-> IF i \in firsts THEN <<pairs[i][1]>> ELSE <<>>])

ValuesOf(pairs, name) ==
    concat([i \in 1..Len(pairs) |-> IF pairs[i][1] = name THEN <<pairs[i][2]>> ELSE <<>>])

Mapping(names, Image(_)) ==
    JObject(propertyOrder([i \in 1..Len(names) |-> <<names[i], Image(names[i])>>]))

HasMember(text, name, json) ==
    includes(text, <<"\n", " ", " ">> \o quote(name) \o <<":", " ">>
                   \o stringify(json, 2, 1) \o <<",", "\n">>)

SearchParamsName == <<"s", "e", "a", "r", "c", "h", "P", "a", "r", "a", "m", "s">>
SearchAllParamsName ==
    <<"s", "e", "a", "r", "c", "h", "A", "l", "l", "P", "a", "r", "a", "m", "s">>

AllValuesMapped ==
    LET All(name) == JArray([i \in 1..Len(ValuesOf(QueryPairs, name)) |->
                               JString(ValuesOf(QueryPairs, name)[i])])
    IN  HasMember(ResultOf("Parse URL"), SearchAllParamsName,
                  Mapping(NamesOf(QueryPairs), All))

\* C5 as stated: for a parseable URL, searchParams sends each distinct name of the
\* query to the last value given for it, and searchAllParams sends each distinct
\* name to all its values in their order.
C5_LastValue ==
    (Called /\ URLParse(trim(data)).ok) =>
        LET Last(name) ==
                JString(ValuesOf(QueryPairs, name)[Len(ValuesOf(QueryPairs, name))])
        IN  /\ HasMember(ResultOf("Parse URL"), SearchParamsName,
                         Mapping(NamesOf(QueryPairs), Last))
            /\ AllValuesMapped

\* C5, amended: for a parseable URL, searchParams sends each distinct name of the
\* query to the first value given for it, and searchAllParams sends each distinct
\* name to all its values in their order.
C5_FirstValue ==
    (Called /\ URLParse(trim(data)).ok) =>
        LET First(name) == JString(ValuesOf(QueryPairs, name)[1])
        IN  /\ HasMember(ResultOf("Parse URL"), SearchParamsName,
                         Mapping(NamesOf(QueryPairs), First))
            /\ AllValuesMapped

\* A URL was parsed whose query gives one name two different values.
C5_Witness ==
    /\ Called
    /\ URLParse(trim(data)).ok
    /\ ResultOf("Parse URL") # <<>>
    /\ \E i, j \in 1..Len(QueryPairs) :
          i < j /\ QueryPairs[i][1] = QueryPairs[j][1] /\ QueryPairs[i][2] # QueryPairs[j][2]

\* Whether a text is hexadecimal throughout: hex digits, and an even number of them.
IsHexText(text) ==
    Len(text) % 2 = 0 /\ \A i \in 1..Len(text) : IsRadixDigit(text[i], 16)

\* The bytes of the longest prefix of a text that is made of pairs of hex digits.
PrefixBytes(text) ==
    LET whole == {n \in 0..(Len(text) \div 2) :
                    \A i \in 1..(2 * n) : IsRadixDigit(text[i], 16)}
        n == CHOOSE n \in whole : \A m \in whole : m <= n
    IN  [i \in 1..n |-> DigitValue(text[2 * i - 1]) * 16 + DigitValue(text[2 * i])]

\* C7 as stated: "Hex decoding" of a text that is not hexadecimal throughout fails,
\* and the runner records the empty string for it.
C7_InvalidHexFails ==
    (Called /\ ~IsHexText(data)) => ResultOf("Hex decoding") = <<>>

\* C7, amended: "Hex decoding" of a text that is not hexadecimal throughout does
\* not fail: the runner records the UTF-8 decoding of the bytes of the longest
\* prefix made of pairs of hex digits, which is the empty string only when the text
\* does not start with two hex digits.
C7_InvalidHexPrefix ==
    (Called /\ ~IsHexText(data)) =>
        /\ ResultOf("Hex decoding") = utf8Decode(PrefixBytes(data))
        /\ ResultOf("Hex decoding") = <<>> <=> PrefixBytes(data) = <<>>

\* A text was decoded that starts with a pair of hex digits and goes on with a
\* character that is none.
C7_Witness ==
    /\ Called
    /\ ~IsHexText(data)
    /\ \E i \in 1..Len(data) : ~IsRadixDigit(data[i], 16)
    /\ ResultOf("Hex decoding") # <<>>

\* manipulateString has returned twice for the text of this state.
CalledTwice ==
    /\ Len(previous) = Len(manipulations)
    /\ Len(results) = Len(manipulations)

\* C8 as stated: every manipulation is a function of its argument alone, so two
\* calls of manipulateString on the same text, at whatever times, return the same
\* results.
C8_SameResults ==
    CalledTwice => results = previous

\* C8, amended: two calls of manipulateString on the same text in the same runtime,
\* at whatever times, return the same value for every entry but "Convert duration
\* from now", whose value depends on the time of the call as well.
C8_SameButDuration ==
    CalledTwice =>
        \A i \in 1..Len(manipulations) :
            manipulations[i] # "Convert duration from now" => results[i] = previous[i]

\* Two calls on the text of a date, with time passing between them, gave two
\* different durations.
C8_Witness ==
    /\ CalledTwice
    /\ ~DateParse(trim(data)).nan
    /\ ResultOf("Convert duration from now")
         # previous[Index("Convert duration from now")].value

\* Hexadecimal numerals in lower case without leading zeros, binary numerals in
\* groups of 8 bits that single spaces separate and a 1 bit leads, and the latter
\* with each group written as two groups of 4.
IsCanonicalHex(h) ==
    /\ h # <<>>
    /\ \A i \in 1..Len(h) : IsDigit(h[i]) \/ h[i] \in {"a", "b", "c", "d", "e", "f"}
    /\ h[1] # "0" \/ Len(h) = 1

IsGrouped(b, width) ==
    /\ Len(b) % (width + 1) = width
    /\ \A i \in 1..Len(b) : IF i % (width + 1) = 0 THEN b[i] = " " ELSE b[i] \in {"0", "1"}
    /\ b[1] = "1"

\* C10: for a hexadecimal numeral h in lower case without leading zeros,
\* "Decimal(10) to Hex(16)" of "Hex(16) to Decimal(10)" of h is h; for a binary
\* numeral b in groups of 8 bits behind a leading 1 bit, "Decimal(10) to Binary(2)"
\* of "Binary(2) to Decimal(10)" of b is b, and for b in groups of 4 bits it is b
\* in groups of 8 (1010 1100 gives 10101100).  The numerals are those of the model:
\* up to MaxHexLen hex digits and up to MaxGroups groups of 8 bits.
C10_RoundTrips ==
    Called =>
        /\ IsCanonicalHex(data) =>
             DecimalToHex(ResultOf("Hex(16) to Decimal(10)")) = Value(data)
        /\ IsGrouped(data, 8) =>
             DecimalToBinary(ResultOf("Binary(2) to Decimal(10)")) = Value(data)
        /\ (IsGrouped(data, 4) /\ Len(data) % 10 = 9) =>
             DecimalToBinary(ResultOf("Binary(2) to Decimal(10)"))
               = Value(Windows(SelectSeq(data, LAMBDA c : c # " ")))

\* The conversions were run on a numeral of two groups of 8 bits.
C10_Witness ==
    /\ Called
    /\ IsGrouped(data, 8)
    /\ Len(data) > 8
    /\ ResultOf("Binary(2) to Decimal(10)") # <<>>

====
